---- MODULE Spec2Model ----
(***************************************************************************)
(* A model of the Warframe market profit scanner:                          *)
(*   src/warframe_profit_calc.py  WarframeMarketAPI (rate-limited, caching *)
(*                                client) and WarframeProfitCalculator     *)
(*                                (set decomposition and profit scan)      *)
(*   src/app.py                   the Flask shell around the calculator    *)
(*                                                                         *)
(* Specifications:                                                         *)
(*   Spec        one run_scan on a fresh calculator, one action per        *)
(*               network-visible step of the scan                          *)
(*   PriceSpec   get_lowest_sell_price applied to bounded order lists      *)
(*   ClientSpec  threads calling WarframeMarketAPI._get against a clock    *)
(*   AppSpec     the handlers of src/app.py and the scan threads they      *)
(*               start                                                     *)
(***************************************************************************)
EXTENDS Integers, Sequences, FiniteSets, TLC

VARIABLES
    \* ---- WarframeMarketAPI
    item_cache,        \* self.item_cache: slug -> item detail
    \* ---- WarframeProfitCalculator
    all_items_data,    \* self.all_items_data
    all_items_map,     \* self.all_items_map: id -> slug
    \* ---- run_scan / calculate_set_profit locals
    pc,                \* position of the scan
    target_sets,       \* run_scan: target_sets
    idx,               \* run_scan: position in target_sets (1-based)
    results,           \* run_scan: results
    set_details,       \* calculate_set_profit: set_details
    pidx,              \* calculate_set_profit: position in parts_ids
    components,        \* calculate_set_profit: components
    set_root_item,     \* calculate_set_profit: set_root_item
    set_price,         \* calculate_set_profit: set_price
    cidx,              \* calculate_set_profit: position in components
    total_cost,        \* calculate_set_profit: total_cost
    component_data,    \* calculate_set_profit: component_data
    \* ---- what the caller of run_scan observes
    delivered,         \* the lists handed to progress_callback, in order
    returned,          \* run_scan's return value
    \* ---- history (not program state)
    fails,             \* failed requests so far
    dlog,              \* per slug, the get_item_details calls: (result, request sent)
    noRootMarket,      \* candidates whose root order book held no valid sell order
    noCompMarket,      \* candidates with a component order book without valid sell order
    detailFailed,      \* candidates for which get_item_details returned None
    unprofitable,      \* candidates evaluated with profit <= 0
    compsOf,           \* per candidate, the names of the components it was priced with
    scans,             \* runs of run_scan started
    evaluated,         \* the candidates calculate_set_profit was called for, in order
    listLog,           \* the get_all_items requests: (run, answered)
    partsSeen,         \* last candidate: the parts whose detail was obtained
    rootOf,            \* last candidate: the root it was given ("pending", "none")
    books,             \* last candidate: the slugs whose order book was requested
    profitable,        \* candidates evaluated with profit > 0
    \* ---- PriceSpec
    p_orders,          \* the argument of get_lowest_sell_price
    p_result,          \* its result
    p_done,            \* get_lowest_sell_price has returned
    \* ---- ClientSpec
    now,               \* time.time(), in hundredths of a second
    last_request_time, \* self.last_request_time
    lock,              \* self.lock: the thread holding it, 0 when free
    t_pc,              \* per thread: its position in the client
    t_op,              \* per thread: the operation it is in
    t_slug,            \* per thread: the slug of its get_item_details
    t_wake,            \* per thread: the end of its time.sleep
    t_data,            \* per thread: what _get returned
    prevSend,          \* start time of the send before the last one (-1: none)
    lastSend,          \* start time of the last send (-1: none)
    \* ---- AppSpec (src/app.py)
    is_calculating,    \* the global is_calculating
    latest_results,    \* the global latest_results
    s_pc,              \* per scan thread: its position in the nested run_scan
    s_found,           \* per scan thread: the snapshots its run has delivered
    scan_reply,        \* history: the status of the last answer of /api/scan
    polled             \* history: the last answer of /api/results

scanVars == <<item_cache, all_items_data, all_items_map, pc, target_sets, idx,
              results, set_details, pidx, components, set_root_item, set_price,
              cidx, total_cost, component_data, delivered, returned, fails, dlog,
              noRootMarket, noCompMarket, detailFailed, unprofitable, compsOf,
              scans, evaluated, listLog, partsSeen, rootOf, books, profitable>>
priceVars == <<p_orders, p_result, p_done>>
clientVars == <<now, last_request_time, lock, t_pc, t_op, t_slug, t_wake, t_data,
                prevSend, lastSend>>
appVars == <<is_calculating, latest_results, s_pc, s_found, scan_reply, polled>>
vars == <<scanVars, priceVars, clientVars, appVars>>

(***************************************************************************)
(* Bounds                                                                  *)
(***************************************************************************)
MaxFails == 1       \* failed requests per run
MaxLog == 2         \* get_item_details calls recorded per slug
MaxScans == 2       \* runs of run_scan on the same calculator
MaxOrders == 2      \* length of the order lists of PriceSpec
NThreads == 2       \* threads calling the client in ClientSpec
MaxTime == 102      \* the clock of ClientSpec stops here
ClockStep == 17     \* resolution of the clock of ClientSpec
MaxTriggers == 2    \* scan threads started in AppSpec
MaxFound == 2       \* snapshots one run delivers in AppSpec

(***************************************************************************)
(* Values                                                                  *)
(***************************************************************************)
\* REQUEST_DELAY = 0.34, in hundredths of a second
REQUEST_DELAY == 34

\* Python's None
None == [none |-> TRUE]

\* float('inf'): the "no valid sell order" sentinel, above every price
Inf == 1000000

Sides == {"sell", "buy"}
Statuses == {"ingame", "online", "offline", "invisible"}
Prices == {40, 50, 300}

Order(t, p, s) == [type |-> t, platinum |-> p, status |-> s]

(***************************************************************************)
(* The remote service: a fixed catalog (static reference data).  Order     *)
(* books are volatile and are chosen anew at every get_orders.             *)
(***************************************************************************)
Item(id, slug, name, hasParts, parts, root, hasQty, qty) ==
    [id |-> id, slug |-> slug, name |-> name, hasSetParts |-> hasParts,
     setParts |-> parts, setRoot |-> root, hasQuantity |-> hasQty,
     quantityInSet |-> qty]

Catalog ==
    << \* the set is listed among its own parts and carries the root flag
       Item(1, "alpha_prime_set", <<"Alpha", "Prime", "Set">>, TRUE, <<1, 2, 3>>, TRUE, TRUE, 1),
       Item(2, "alpha_prime_blueprint", <<"Alpha", "Prime", "Blueprint">>, TRUE, <<1, 2, 3>>, FALSE, TRUE, 2),
       Item(3, "alpha_prime_barrel", <<"Alpha", "Prime", "Barrel">>, TRUE, <<1, 2, 3>>, FALSE, TRUE, 1),
       \* the root is another part; two parts carry the root flag; one part id
       \* (99) is not in the catalog; the component states no quantity
       Item(4, "beta_prime_set", <<"Beta", "Prime", "Set">>, TRUE, <<5, 99, 6, 7>>, FALSE, FALSE, 0),
       Item(5, "beta_prime", <<"Beta", "Prime">>, FALSE, <<>>, TRUE, FALSE, 0),
       Item(6, "beta_prime_chassis", <<"Beta", "Prime", "Chassis">>, FALSE, <<>>, FALSE, FALSE, 0),
       Item(7, "beta_prime_kit", <<"Beta", "Prime", "Kit">>, FALSE, <<>>, TRUE, FALSE, 0),
       \* no part is the root; the candidate carries the flag itself; the
       \* component's quantity is 0
       Item(8, "gamma_prime_set", <<"Gamma", "Prime", "Set">>, TRUE, <<9>>, TRUE, FALSE, 0),
       Item(9, "gamma_prime_blade", <<"Gamma", "Prime", "Blade">>, FALSE, <<>>, FALSE, TRUE, 0),
       \* no root anywhere
       Item(10, "delta_prime_set", <<"Delta", "Prime", "Set">>, TRUE, <<11>>, FALSE, FALSE, 0),
       Item(11, "delta_prime_hilt", <<"Delta", "Prime", "Hilt">>, FALSE, <<>>, FALSE, FALSE, 0),
       \* named like a set, without setParts
       Item(12, "epsilon_prime_set", <<"Epsilon", "Prime", "Set">>, FALSE, <<>>, FALSE, FALSE, 0) >>

Slugs == {Catalog[k].slug : k \in 1..Len(Catalog)}

\* GET /items/<slug>: the item's detail
DetailOf ==
    [slug \in Slugs |->
        CHOOSE it \in {Catalog[k] : k \in 1..Len(Catalog)} : it.slug = slug]
Detail(slug) == DetailOf[slug]

\* GET /items: the lightweight list
Lite(it) == [id |-> it.id, slug |-> it.slug, name |-> it.name]
ItemsList == [k \in 1..Len(Catalog) |-> Lite(Catalog[k])]

\* GET /orders/item/<slug>: the order books the service may answer with
Books ==
    { <<>>,
      <<Order("sell", 90, "offline"), Order("buy", 50, "online")>>,
      <<Order("sell", 50, "ingame"), Order("sell", 40, "online")>>,
      <<Order("sell", 45, "offline"), Order("sell", 60, "online"),
        Order("buy", 30, "ingame"), Order("sell", 50, "online")>>,
      <<Order("sell", 300, "online")>> }

(***************************************************************************)
(* WarframeMarketAPI                                                       *)
(***************************************************************************)
EmptyMap == [s \in {} |-> None]

\* self.item_cache[url_name] = item_data
CacheStore_dropped(cache, url_name, item_data) == cache
CacheStore(cache, url_name, item_data) ==
    [s \in (DOMAIN cache) \cup {url_name} |->
        IF s = url_name THEN item_data ELSE cache[s]]

\* get_item_details(url_name); ok is the outcome of the request, if one is made.
\* Yields the returned value, the cache afterwards and whether a request was sent.
get_item_details(cache, url_name, ok) ==
    IF url_name \in DOMAIN cache
    THEN [ret |-> cache[url_name], cache |-> cache, sent |-> FALSE]
    ELSE IF ok
         THEN [ret |-> Detail(url_name),
               cache |-> CacheStore(cache, url_name, Detail(url_name)),
               sent |-> TRUE]
         ELSE [ret |-> None, cache |-> cache, sent |-> TRUE]

\* get_orders(url_name): the body's data, [] when the request failed
get_orders(ok, book) == IF ok THEN book ELSE <<>>

\* get_all_items(): the body's data, [] when the request failed
get_all_items(ok) == IF ok THEN ItemsList ELSE <<>>

(***************************************************************************)
(* WarframeProfitCalculator: pure helpers                                  *)
(***************************************************************************)
\* list.sort(key=platinum): stable insertion
RECURSIVE InsertByPlatinum(_, _)
InsertByPlatinum(s, o) ==
    IF s = <<>> THEN <<o>>
    ELSE IF Head(s).platinum <= o.platinum
         THEN <<Head(s)>> \o InsertByPlatinum(Tail(s), o)
         ELSE <<o>> \o s

RECURSIVE SortByPlatinum(_)
SortByPlatinum(s) ==
    IF s = <<>> THEN <<>>
    ELSE InsertByPlatinum(SortByPlatinum(SubSeq(s, 1, Len(s) - 1)), s[Len(s)])

\* the filter of get_lowest_sell_price
ValidOrder_anyStatus(o) == o.type = "sell"
ValidOrder(o) == o.type = "sell" /\ o.status \in {"ingame", "online"}

get_lowest_sell_price(orders) ==
    LET valid_orders == SelectSeq(orders, ValidOrder)
    IN  IF valid_orders = <<>> THEN Inf
        ELSE SortByPlatinum(valid_orders)[1].platinum

\* 'Prime Set' in name, on names held as word sequences
IsPrimeSet(item) ==
    \E k \in 1..(Len(item.name) - 1) :
        item.name[k] = "Prime" /\ item.name[k + 1] = "Set"

\* for item in all_items_data: all_items_map[item['id']] = item['slug']
BuildMap(map, data) ==
    [id \in (DOMAIN map) \cup {data[k].id : k \in 1..Len(data)} |->
        IF \E k \in 1..Len(data) : data[k].id = id
        THEN data[CHOOSE k \in 1..Len(data) :
                    data[k].id = id /\ \A j \in (k + 1)..Len(data) : data[j].id # id].slug
        ELSE map[id]]

\* qty = comp.get('quantityInSet', 1); if not qty: qty = 1
Quantity(comp) ==
    LET qty == IF comp.hasQuantity THEN comp.quantityInSet ELSE 1
    IN  IF qty = 0 THEN 1 ELSE qty

\* a fallback that takes the candidate as root whatever its flag
ResolveRoot_unflagged(root, details) == IF root # None THEN root ELSE details

\* lines 143-146: the root found among the parts, else the candidate if flagged
ResolveRoot(root, details) ==
    IF root # None THEN root
    ELSE IF details.setRoot THEN details ELSE None

\* line 155: if set_price == float('inf'): return None
SetUnavailable_never(price) == FALSE
SetUnavailable(price) == price = Inf

\* lines 163-182, one pass of the component loop: None when the component has
\* no valid sell price, else the accumulated cost and component_data
PriceOne_skip(comp, orders, cost, data) ==
    LET qty == Quantity(comp)
        price == get_lowest_sell_price(orders)
    IN  IF price = Inf THEN [total_cost |-> cost, component_data |-> data]
        ELSE [total_cost |-> cost + price * qty,
              component_data |-> Append(data,
                  [name |-> comp.name, price |-> <<qty, price, price * qty>>,
                   unit_price |-> price, qty |-> qty])]
PriceOne(comp, orders, cost, data) ==
    LET qty == Quantity(comp)
        price == get_lowest_sell_price(orders)
    IN  IF price = Inf THEN None
        ELSE [total_cost |-> cost + price * qty,
              component_data |-> Append(data,
                  [name |-> comp.name, price |-> <<qty, price, price * qty>>,
                   unit_price |-> price, qty |-> qty])]

RECURSIVE SumQty(_)
SumQty(data) == IF data = <<>> THEN 0 ELSE Head(data).qty + SumQty(Tail(data))

\* lines 184-194: the evaluation returned by calculate_set_profit
MakeResult_noSale(root, price, cost, data) ==
    [name |-> root.name, set_price |-> price, cost |-> cost,
     profit |-> price - cost, trades |-> SumQty(data), components |-> data]
MakeResult(root, price, cost, data) ==
    [name |-> root.name, set_price |-> price, cost |-> cost,
     profit |-> price - cost, trades |-> SumQty(data) + 1, components |-> data]

\* line 212: if res and res['profit'] > 0
Profitable_orEven(res) == res # None /\ res.profit >= 0
Profitable(res) == res # None /\ res.profit > 0

\* results.sort(key=cost): stable insertion
RECURSIVE InsertByCost(_, _)
InsertByCost(s, e) ==
    IF s = <<>> THEN <<e>>
    ELSE IF Head(s).cost <= e.cost
         THEN <<Head(s)>> \o InsertByCost(Tail(s), e)
         ELSE <<e>> \o s

RECURSIVE SortByCost(_)
SortByCost_none(s) == s
SortByCost(s) ==
    IF s = <<>> THEN <<>>
    ELSE InsertByCost(SortByCost(SubSeq(s, 1, Len(s) - 1)), s[Len(s)])

\* A list handed to progress_callback: what it holds, and whether it is the
\* list object results itself, in which case the in-place append and sort of
\* lines 214-216 show through it
Handed(shared, items) == [shared |-> shared, items |-> items]

\* line 219: progress_callback(list(results)), a new list
Snapshot_delta(res) == Handed(FALSE, <<res[Len(res)]>>)
Snapshot_alias(res) == Handed(TRUE, res)
Snapshot(res) == Handed(FALSE, res)

\* lines 214-216: results.append and results.sort change results in place
SeenAfter(handed, res) ==
    [k \in 1..Len(handed) |->
        IF handed[k].shared THEN Handed(TRUE, res) ELSE handed[k]]

(***************************************************************************)
(* run_scan and calculate_set_profit, step by step                         *)
(***************************************************************************)
\* a request may fail while the failure budget lasts
Outcomes == IF fails < MaxFails THEN {TRUE, FALSE} ELSE {TRUE}

Candidate == target_sets[idx]

\* the history of get_item_details calls
Logged(log, slug, r) ==
    IF Len(log[slug]) < MaxLog
    THEN [log EXCEPT ![slug] = Append(@, [ret |-> r.ret, sent |-> r.sent])]
    ELSE log

\* for the history: the order book answered holds no valid sell order
NoValidSell(book) ==
    \A k \in 1..Len(book) :
        ~(book[k].type = "sell" /\ book[k].status \in {"online", "ingame"})

Failed(r, ok) == IF r.sent /\ ~ok THEN 1 ELSE 0

ResetLocals ==
    /\ set_details' = None
    /\ pidx' = 0
    /\ components' = <<>>
    /\ set_root_item' = None
    /\ set_price' = 0
    /\ cidx' = 0
    /\ total_cost' = 0
    /\ component_data' = <<>>

\* a scan that gives up at the first candidate it cannot evaluate
Discard_abort ==
    /\ pc' = "loop"
    /\ idx' = Len(target_sets) + 1
    /\ ResetLocals
    /\ UNCHANGED <<results, delivered, returned, target_sets>>

\* calculate_set_profit returned None: run_scan goes on with the next candidate
Discard ==
    /\ pc' = "loop"
    /\ idx' = idx + 1
    /\ ResetLocals
    /\ UNCHANGED <<results, delivered, returned, target_sets>>

\* a calculator that lists the items at every run
NeedsItems_always(data) == TRUE

\* initialize_items, line 75: if not self.all_items_data
NeedsItems(data) == data = <<>>

\* run_scan, lines 197-207: initialize_items, the Prime Set filter, results = []
InitializeItems ==
    /\ pc = "start"
    /\ \E ok \in Outcomes :
         LET fetch == NeedsItems(all_items_data)
             data == IF fetch THEN get_all_items(ok) ELSE all_items_data
         IN  /\ all_items_data' = data
             /\ all_items_map' = IF fetch THEN BuildMap(all_items_map, data)
                                 ELSE all_items_map
             /\ target_sets' = SelectSeq(data, IsPrimeSet)
             /\ fails' = fails + (IF fetch /\ ~ok THEN 1 ELSE 0)
             /\ listLog' = IF fetch
                           THEN Append(listLog, [scan |-> scans, ok |-> ok])
                           ELSE listLog
    /\ evaluated' = <<>>
    /\ results' = <<>>
    /\ idx' = 1
    /\ pc' = "loop"
    /\ UNCHANGED <<item_cache, set_details, pidx, components, set_root_item,
                   set_price, cidx, total_cost, component_data, delivered,
                   returned, dlog, noRootMarket, noCompMarket, detailFailed,
                   unprofitable, compsOf, scans, partsSeen, rootOf, books,
                   profitable>>

\* calculate_set_profit, lines 97-110: the candidate's own detail
FetchSetDetails ==
    /\ pc = "loop"
    /\ idx <= Len(target_sets)
    /\ \E ok \in Outcomes :
         LET r == get_item_details(item_cache, Candidate.slug, ok)
         IN  /\ item_cache' = r.cache
             /\ dlog' = Logged(dlog, Candidate.slug, r)
             /\ fails' = fails + Failed(r, ok)
             /\ IF r.ret = None
                THEN /\ detailFailed' = detailFailed \cup {Candidate.slug}
                     /\ Discard
                ELSE /\ detailFailed' = detailFailed
                     /\ IF ~r.ret.hasSetParts
                        THEN Discard
                        ELSE /\ set_details' = r.ret
                             /\ pidx' = 1
                             /\ components' = <<>>
                             /\ set_root_item' = None
                             /\ pc' = "parts"
                             /\ UNCHANGED <<idx, results, delivered, returned,
                                            target_sets, set_price, cidx,
                                            total_cost, component_data>>
    /\ evaluated' = Append(evaluated, Candidate.slug)
    /\ partsSeen' = <<>>
    /\ rootOf' = "pending"
    /\ books' = <<>>
    /\ UNCHANGED <<all_items_data, all_items_map, noRootMarket, noCompMarket,
                   unprofitable, compsOf, scans, listLog, profitable>>

\* lines 128-141, one pass of the loop over parts_ids
ResolvePart ==
    /\ pc = "parts"
    /\ pidx <= Len(set_details.setParts)
    /\ LET pid == set_details.setParts[pidx]
       IN  IF pid \notin DOMAIN all_items_map
           THEN UNCHANGED <<item_cache, dlog, fails, detailFailed, components,
                            set_root_item, partsSeen>>
           ELSE \E ok \in Outcomes :
                  LET r == get_item_details(item_cache, all_items_map[pid], ok)
                  IN  /\ item_cache' = r.cache
                      /\ dlog' = Logged(dlog, all_items_map[pid], r)
                      /\ fails' = fails + Failed(r, ok)
                      /\ IF r.ret = None
                         THEN /\ detailFailed' = detailFailed \cup {Candidate.slug}
                              /\ UNCHANGED <<components, set_root_item, partsSeen>>
                         ELSE /\ detailFailed' = detailFailed
                              /\ partsSeen' = Append(partsSeen, r.ret.slug)
                              /\ IF r.ret.setRoot
                                 THEN /\ set_root_item' = r.ret
                                      /\ UNCHANGED components
                                 ELSE /\ components' = Append(components, r.ret)
                                      /\ UNCHANGED set_root_item
    /\ pidx' = pidx + 1
    /\ UNCHANGED <<all_items_data, all_items_map, pc, target_sets, idx, results,
                   set_details, set_price, cidx, total_cost, component_data,
                   delivered, returned, noRootMarket, noCompMarket, unprofitable,
                   compsOf, scans, evaluated, listLog, rootOf, books, profitable>>

\* lines 143-160: the root, its order book and its price
PriceSet ==
    /\ pc = "parts"
    /\ pidx > Len(set_details.setParts)
    /\ LET root == ResolveRoot(set_root_item, set_details)
       IN  IF root = None
           THEN /\ Discard
                /\ rootOf' = "none"
                /\ UNCHANGED <<fails, noRootMarket, compsOf, books>>
           ELSE \E ok \in Outcomes, book \in Books :
                  LET set_orders == get_orders(ok, book)
                      price == get_lowest_sell_price(set_orders)
                  IN  /\ fails' = fails + (IF ok THEN 0 ELSE 1)
                      /\ rootOf' = root.slug
                      /\ books' = Append(books, root.slug)
                      /\ noRootMarket' =
                            IF ok /\ NoValidSell(book)
                            THEN noRootMarket \cup {Candidate.slug}
                            ELSE noRootMarket
                      /\ compsOf' = [compsOf EXCEPT ![Candidate.slug] =
                            [k \in 1..Len(components) |-> components[k].name]]
                      /\ IF SetUnavailable(price)
                         THEN Discard
                         ELSE /\ set_root_item' = root
                              /\ set_price' = price
                              /\ cidx' = 1
                              /\ total_cost' = 0
                              /\ component_data' = <<>>
                              /\ pc' = "components"
                              /\ UNCHANGED <<idx, results, delivered, returned,
                                             target_sets, set_details, pidx,
                                             components>>
    /\ UNCHANGED <<item_cache, all_items_data, all_items_map, dlog, noCompMarket,
                   detailFailed, unprofitable, scans, evaluated, listLog,
                   partsSeen, profitable>>

\* lines 162-182, one pass of the loop over components
PriceComponent ==
    /\ pc = "components"
    /\ cidx <= Len(components)
    /\ \E ok \in Outcomes, book \in Books :
         LET orders == get_orders(ok, book)
             acc == PriceOne(components[cidx], orders, total_cost, component_data)
         IN  /\ fails' = fails + (IF ok THEN 0 ELSE 1)
             /\ noCompMarket' =
                   IF ok /\ NoValidSell(book)
                   THEN noCompMarket \cup {Candidate.slug}
                   ELSE noCompMarket
             /\ IF acc = None
                THEN Discard
                ELSE /\ total_cost' = acc.total_cost
                     /\ component_data' = acc.component_data
                     /\ cidx' = cidx + 1
                     /\ UNCHANGED <<pc, idx, results, delivered, returned,
                                    target_sets, set_details, pidx, components,
                                    set_root_item, set_price>>
    /\ books' = Append(books, components[cidx].slug)
    /\ UNCHANGED <<item_cache, all_items_data, all_items_map, dlog, noRootMarket,
                   detailFailed, unprofitable, compsOf, scans, evaluated, listLog,
                   partsSeen, rootOf, profitable>>

\* lines 184-194 and run_scan, lines 212-219: the evaluation, the profit
\* filter, the insertion, the sort and the progress callback
FinishCandidate ==
    /\ pc = "components"
    /\ cidx > Len(components)
    /\ LET res == MakeResult(set_root_item, set_price, total_cost, component_data)
       IN  IF Profitable(res)
           THEN /\ results' = SortByCost(Append(results, res))
                /\ delivered' = Append(SeenAfter(delivered, results'),
                                       Snapshot(results'))
           ELSE UNCHANGED <<results, delivered>>
    /\ unprofitable' = IF set_price - total_cost <= 0
                       THEN unprofitable \cup {Candidate.slug}
                       ELSE unprofitable
    /\ profitable' = IF set_price - total_cost > 0
                     THEN profitable \cup {Candidate.slug}
                     ELSE profitable
    /\ pc' = "loop"
    /\ idx' = idx + 1
    /\ ResetLocals
    /\ UNCHANGED <<item_cache, all_items_data, all_items_map, target_sets,
                   returned, fails, dlog, noRootMarket, noCompMarket, detailFailed,
                   compsOf, scans, evaluated, listLog, partsSeen, rootOf, books>>

\* line 221: return results
ReturnResults ==
    /\ pc = "loop"
    /\ idx > Len(target_sets)
    /\ returned' = results
    /\ pc' = "done"
    /\ UNCHANGED <<item_cache, all_items_data, all_items_map, target_sets, idx,
                   results, set_details, pidx, components, set_root_item,
                   set_price, cidx, total_cost, component_data, delivered, fails,
                   dlog, noRootMarket, noCompMarket, detailFailed, unprofitable,
                   compsOf, scans, evaluated, listLog, partsSeen, rootOf, books,
                   profitable>>

\* src/app.py, line 33: the caller starts run_scan again on the same calculator;
\* what it observed of the last run, and the run's history, start afresh
Rescan ==
    /\ pc = "done"
    /\ scans < MaxScans
    /\ scans' = scans + 1
    /\ pc' = "start"
    /\ delivered' = <<>>
    /\ returned' = <<>>
    /\ noRootMarket' = {}
    /\ noCompMarket' = {}
    /\ detailFailed' = {}
    /\ unprofitable' = {}
    /\ compsOf' = [s \in Slugs |-> <<>>]
    /\ evaluated' = <<>>
    /\ partsSeen' = <<>>
    /\ rootOf' = "pending"
    /\ books' = <<>>
    /\ profitable' = {}
    /\ UNCHANGED <<item_cache, all_items_data, all_items_map, target_sets, idx,
                   results, set_details, pidx, components, set_root_item,
                   set_price, cidx, total_cost, component_data, fails, dlog,
                   listLog>>

Threads == 1..NThreads

ClientIdle ==
    /\ now = REQUEST_DELAY
    /\ last_request_time = 0
    /\ lock = 0
    /\ t_pc = [t \in Threads |-> "idle"]
    /\ t_op = [t \in Threads |-> "none"]
    /\ t_slug = [t \in Threads |-> "none"]
    /\ t_wake = [t \in Threads |-> 0]
    /\ t_data = [t \in Threads |-> FALSE]
    /\ prevSend = -1
    /\ lastSend = -1

ScanThreads == 1..MaxTriggers

\* src/app.py, lines 10-11
AppIdle ==
    /\ is_calculating = FALSE
    /\ latest_results = <<>>
    /\ s_pc = [t \in ScanThreads |-> "unborn"]
    /\ s_found = [t \in ScanThreads |-> 0]
    /\ scan_reply = "none"
    /\ polled = None

PriceIdle ==
    /\ p_orders = <<>>
    /\ p_result = 0
    /\ p_done = FALSE

ScanInit ==
    /\ item_cache = EmptyMap
    /\ all_items_data = <<>>
    /\ all_items_map = EmptyMap
    /\ pc = "start"
    /\ target_sets = <<>>
    /\ idx = 0
    /\ results = <<>>
    /\ set_details = None
    /\ pidx = 0
    /\ components = <<>>
    /\ set_root_item = None
    /\ set_price = 0
    /\ cidx = 0
    /\ total_cost = 0
    /\ component_data = <<>>
    /\ delivered = <<>>
    /\ returned = <<>>
    /\ fails = 0
    /\ dlog = [s \in Slugs |-> <<>>]
    /\ noRootMarket = {}
    /\ noCompMarket = {}
    /\ detailFailed = {}
    /\ unprofitable = {}
    /\ compsOf = [s \in Slugs |-> <<>>]
    /\ scans = 1
    /\ evaluated = <<>>
    /\ listLog = <<>>
    /\ partsSeen = <<>>
    /\ rootOf = "pending"
    /\ books = <<>>
    /\ profitable = {}

Init == ScanInit /\ PriceIdle /\ ClientIdle /\ AppIdle

Next ==
    \/ (InitializeItems /\ UNCHANGED <<priceVars, clientVars, appVars>>)
    \/ (FetchSetDetails /\ UNCHANGED <<priceVars, clientVars, appVars>>)
    \/ (ResolvePart /\ UNCHANGED <<priceVars, clientVars, appVars>>)
    \/ (PriceSet /\ UNCHANGED <<priceVars, clientVars, appVars>>)
    \/ (PriceComponent /\ UNCHANGED <<priceVars, clientVars, appVars>>)
    \/ (FinishCandidate /\ UNCHANGED <<priceVars, clientVars, appVars>>)
    \/ (ReturnResults /\ UNCHANGED <<priceVars, clientVars, appVars>>)
    \/ (Rescan /\ UNCHANGED <<priceVars, clientVars, appVars>>)

Spec == Init /\ [][Next]_vars

\* the steps of one run of run_scan
ScanStep ==
    \/ InitializeItems \/ FetchSetDetails \/ ResolvePart \/ PriceSet
    \/ PriceComponent \/ FinishCandidate \/ ReturnResults

(***************************************************************************)
(* PriceSpec: get_lowest_sell_price on every order list of bounded length  *)
(***************************************************************************)
Orders == {Order(t, p, s) : t \in Sides, p \in Prices, s \in Statuses}

\* the order list of the specification's example
ExampleOrders ==
    <<Order("sell", 120, "online"), Order("sell", 90, "offline"),
      Order("buy", 50, "online"), Order("sell", 200, "ingame")>>

OrderLists == Books \cup {ExampleOrders} \cup UNION {[1..n -> Orders] : n \in 0..MaxOrders}

ApplyPrice ==
    /\ ~p_done
    /\ p_result' = get_lowest_sell_price(p_orders)
    /\ p_done' = TRUE
    /\ UNCHANGED p_orders

PriceInit ==
    /\ p_orders \in OrderLists
    /\ p_result = 0
    /\ p_done = FALSE
    /\ ScanInit
    /\ ClientIdle
    /\ AppIdle

PriceNext == ApplyPrice /\ UNCHANGED <<scanVars, clientVars, appVars>>

PriceSpec == PriceInit /\ [][PriceNext]_vars

(***************************************************************************)
(* ClientSpec: threads calling get_all_items, get_item_details and         *)
(* get_orders, each request going through _get, against a clock            *)
(***************************************************************************)
ClientOps == {"get_all_items", "get_item_details", "get_orders"}
ClientSlugs == {"alpha_prime_set", "alpha_prime_barrel"}
RequestOutcomes == {"ok", "bad_status", "transport_error"}

\* lines 41-43, 48-53, 60-63: a thread enters an operation; get_item_details
\* returns at once on a cache hit, everything else goes to _get
Call(t) ==
    /\ t_pc[t] = "idle"
    /\ \E op \in ClientOps, slug \in ClientSlugs :
         \* the slug matters to get_item_details alone (the cache lookup)
         /\ op = "get_item_details" \/ slug = "alpha_prime_set"
         /\ IF op = "get_item_details" /\ slug \in DOMAIN item_cache
            THEN UNCHANGED <<t_pc, t_op, t_slug>>
            ELSE /\ t_pc' = [t_pc EXCEPT ![t] = "lock"]
                 /\ t_op' = [t_op EXCEPT ![t] = op]
                 /\ t_slug' = [t_slug EXCEPT ![t] =
                        IF op = "get_item_details" THEN slug ELSE "none"]
    /\ UNCHANGED <<now, last_request_time, lock, t_wake, t_data, prevSend,
                   lastSend, item_cache>>

\* a lock that lets every thread in
LockFree_always(l) == TRUE

\* line 26: with self.lock blocks until no thread holds the lock
LockFree(l) == l = 0

\* lines 26-29: with self.lock; elapsed; time.sleep(REQUEST_DELAY - elapsed)
Acquire(t) ==
    /\ t_pc[t] = "lock"
    /\ LockFree(lock)
    /\ lock' = t
    /\ LET elapsed == now - last_request_time
       IN  IF elapsed < REQUEST_DELAY
           THEN /\ t_pc' = [t_pc EXCEPT ![t] = "sleep"]
                /\ t_wake' = [t_wake EXCEPT ![t] = now + (REQUEST_DELAY - elapsed)]
           ELSE /\ t_pc' = [t_pc EXCEPT ![t] = "send"]
                /\ UNCHANGED t_wake
    /\ UNCHANGED <<now, last_request_time, t_op, t_slug, t_data, prevSend,
                   lastSend, item_cache>>

\* line 33: session.get(url) starts, once the sleep (if any) is over
Send(t) ==
    /\ \/ t_pc[t] = "send"
       \/ t_pc[t] = "sleep" /\ now >= t_wake[t]
    /\ t_pc' = [t_pc EXCEPT ![t] = "wait"]
    /\ t_wake' = [t_wake EXCEPT ![t] = 0]
    /\ prevSend' = lastSend
    /\ lastSend' = now
    /\ UNCHANGED <<now, last_request_time, lock, t_op, t_slug, t_data, item_cache>>

\* lines 33-34: last_request_time = time.time() runs when session.get returned
\* a response (whatever its status), not when it raised
Stamp(last, outcome, time) ==
    IF outcome = "transport_error" THEN last ELSE time

\* lines 33-39: the request ends; the lock is released on the way out
Respond(t) ==
    /\ t_pc[t] = "wait"
    /\ \E outcome \in RequestOutcomes :
         /\ last_request_time' = Stamp(last_request_time, outcome, now)
         /\ t_data' = [t_data EXCEPT ![t] = (outcome = "ok")]
    /\ lock' = 0
    /\ t_pc' = [t_pc EXCEPT ![t] = "ret"]
    /\ UNCHANGED <<now, t_op, t_slug, t_wake, prevSend, lastSend, item_cache>>

\* lines 44-46, 54-58, 64-66: back in the operation; get_item_details stores
\* the detail it got
Return(t) ==
    /\ t_pc[t] = "ret"
    /\ item_cache' =
          IF t_op[t] = "get_item_details" /\ t_data[t]
          THEN CacheStore(item_cache, t_slug[t], Detail(t_slug[t]))
          ELSE item_cache
    /\ t_pc' = [t_pc EXCEPT ![t] = "idle"]
    /\ t_op' = [t_op EXCEPT ![t] = "none"]
    /\ t_slug' = [t_slug EXCEPT ![t] = "none"]
    /\ t_data' = [t_data EXCEPT ![t] = FALSE]
    /\ UNCHANGED <<now, last_request_time, lock, t_wake, prevSend, lastSend>>

\* time passes
Tick ==
    /\ now + ClockStep <= MaxTime
    /\ now' = now + ClockStep
    /\ UNCHANGED <<last_request_time, lock, t_pc, t_op, t_slug, t_wake, t_data,
                   prevSend, lastSend, item_cache>>

scanOnly == <<all_items_data, all_items_map, pc, target_sets, idx,
              results, set_details, pidx, components, set_root_item, set_price,
              cidx, total_cost, component_data, delivered, returned, fails, dlog,
              noRootMarket, noCompMarket, detailFailed, unprofitable, compsOf,
              scans, evaluated, listLog, partsSeen, rootOf, books, profitable>>

ClientInit == ScanInit /\ PriceIdle /\ ClientIdle /\ AppIdle

ClientNext ==
    \/ \E t \in Threads : Call(t) /\ UNCHANGED <<scanOnly, priceVars, appVars>>
    \/ \E t \in Threads : Acquire(t) /\ UNCHANGED <<scanOnly, priceVars, appVars>>
    \/ \E t \in Threads : Send(t) /\ UNCHANGED <<scanOnly, priceVars, appVars>>
    \/ \E t \in Threads : Respond(t) /\ UNCHANGED <<scanOnly, priceVars, appVars>>
    \/ \E t \in Threads : Return(t) /\ UNCHANGED <<scanOnly, priceVars, appVars>>
    \/ (Tick /\ UNCHANGED <<scanOnly, priceVars, appVars>>)

ClientSpec == ClientInit /\ [][ClientNext]_vars

(***************************************************************************)
(* AppSpec: the Flask shell.  /api/scan starts a thread that runs          *)
(* calculator.run_scan, /api/results reads the two globals.  A run of the  *)
(* calculator is seen from outside: it calls the callback with growing     *)
(* collections and returns the last one (C10, C18); its evaluations carry  *)
(* the thread that found them.                                             *)
(***************************************************************************)
\* the collection a run of thread t holds after n profitable candidates
ResultsOf(t, n) == [k \in 1..n |-> [scan |-> t, k |-> k]]

\* the threads that are inside calculator.run_scan or have just left it
Scanning == {t \in ScanThreads : s_pc[t] \in {"scan", "finally"}}

\* lines 18-45: /api/scan
ApiScan ==
    /\ IF is_calculating
       THEN /\ scan_reply' = "running"
            /\ UNCHANGED s_pc
       ELSE \E t \in ScanThreads :
              /\ s_pc[t] = "unborn"
              /\ \A u \in ScanThreads : u < t => s_pc[u] # "unborn"
              /\ s_pc' = [s_pc EXCEPT ![t] = "started"]
              /\ scan_reply' = "started"
    /\ UNCHANGED <<is_calculating, latest_results, s_found, polled>>

\* line 25: the thread's first statement
ThreadBegin(t) ==
    /\ s_pc[t] = "started"
    /\ is_calculating' = TRUE
    /\ s_pc' = [s_pc EXCEPT ![t] = "scan"]
    /\ UNCHANGED <<latest_results, s_found, scan_reply, polled>>

\* lines 29-31: update_results, called by the run for a profitable candidate
UpdateResults(t) ==
    /\ s_pc[t] = "scan"
    /\ s_found[t] < MaxFound
    /\ s_found' = [s_found EXCEPT ![t] = @ + 1]
    /\ latest_results' = ResultsOf(t, s_found[t] + 1)
    /\ UNCHANGED <<is_calculating, s_pc, scan_reply, polled>>

\* line 33: calculator.run_scan returns and its result is assigned
ScanReturns(t) ==
    /\ s_pc[t] = "scan"
    /\ latest_results' = ResultsOf(t, s_found[t])
    /\ s_pc' = [s_pc EXCEPT ![t] = "finally"]
    /\ UNCHANGED <<is_calculating, s_found, scan_reply, polled>>

\* lines 35-38: calculator.run_scan raises, nothing is assigned
ScanRaises(t) ==
    /\ s_pc[t] = "scan"
    /\ s_pc' = [s_pc EXCEPT ![t] = "finally"]
    /\ UNCHANGED <<is_calculating, latest_results, s_found, scan_reply, polled>>

\* lines 39-40: finally
ThreadFinally(t) ==
    /\ s_pc[t] = "finally"
    /\ is_calculating' = FALSE
    /\ s_pc' = [s_pc EXCEPT ![t] = "ended"]
    /\ UNCHANGED <<latest_results, s_found, scan_reply, polled>>

\* lines 47-52: /api/results; the history keeps which threads were scanning
ApiResults ==
    /\ polled' = [status |-> IF is_calculating THEN "running" ELSE "idle",
                  results |-> latest_results,
                  scanning |-> Scanning]
    /\ UNCHANGED <<is_calculating, latest_results, s_pc, s_found, scan_reply>>

AppInit == ScanInit /\ PriceIdle /\ ClientIdle /\ AppIdle

AppNext ==
    \/ (ApiScan /\ UNCHANGED <<scanVars, priceVars, clientVars>>)
    \/ \E t \in ScanThreads :
         ThreadBegin(t) /\ UNCHANGED <<scanVars, priceVars, clientVars>>
    \/ \E t \in ScanThreads :
         UpdateResults(t) /\ UNCHANGED <<scanVars, priceVars, clientVars>>
    \/ \E t \in ScanThreads :
         ScanReturns(t) /\ UNCHANGED <<scanVars, priceVars, clientVars>>
    \/ \E t \in ScanThreads :
         ScanRaises(t) /\ UNCHANGED <<scanVars, priceVars, clientVars>>
    \/ \E t \in ScanThreads :
         ThreadFinally(t) /\ UNCHANGED <<scanVars, priceVars, clientVars>>
    \/ (ApiResults /\ UNCHANGED <<scanVars, priceVars, clientVars>>)

AppSpec == AppInit /\ [][AppNext]_vars

(***************************************************************************)
(* What run_scan's caller observes                                         *)
(***************************************************************************)
Evals(s) == {s[k] : k \in 1..Len(s)}

\* every collection handed over: the snapshots and, once returned, the result
Snapshots ==
    {delivered[k].items : k \in 1..Len(delivered)} \cup
    (IF pc = "done" THEN {returned} ELSE {})

Output == UNION {Evals(sn) : sn \in Snapshots}

\* the names an evaluation of candidate c can carry: its own or a part's
CandidateNames ==
    [c \in Slugs |->
        {Detail(c).name} \cup
        {Catalog[k].name : k \in {j \in 1..Len(Catalog) :
            \E q \in 1..Len(Detail(c).setParts) :
                Detail(c).setParts[q] = Catalog[j].id}}]

Appears(c) == \E e \in Output : e.name \in CandidateNames[c]

RECURSIVE LineTotal(_)
LineTotal(data) ==
    IF data = <<>> THEN 0
    ELSE Head(data).unit_price * Head(data).qty + LineTotal(Tail(data))

RECURSIVE QtyTotal(_)
QtyTotal(data) == IF data = <<>> THEN 0 ELSE Head(data).qty + QtyTotal(Tail(data))

(***************************************************************************)
(* C1 (ClientSpec).  The start times of any two consecutive network sends  *)
(* are at least REQUEST_DELAY apart, whatever the outcome of each request. *)
(* The code breaks it: a request that fails at transport level leaves      *)
(* last_request_time untouched, and the next request is sent at once.      *)
(***************************************************************************)
C1_RateLimit == prevSend >= 0 => lastSend - prevSend >= REQUEST_DELAY

(***************************************************************************)
(* C2, as claimed.  Two calls of get_item_details for a slug issue exactly *)
(* one request in total and return equal results.                          *)
(***************************************************************************)
C2_OneRequestForTwoCalls ==
    \A s \in Slugs :
        Len(dlog[s]) >= 2 =>
            /\ dlog[s][1].sent # dlog[s][2].sent
            /\ dlog[s][1].ret = dlog[s][2].ret

(***************************************************************************)
(* C2, amended.  The first call for a slug sends a request.  After a call  *)
(* that returned a detail the next call for the slug sends nothing and     *)
(* returns the same detail (one request for the two calls); after a call   *)
(* that returned None nothing is cached and the next call sends a request  *)
(* of its own.                                                             *)
(***************************************************************************)
C2_OneRequestAfterSuccess ==
    \A s \in Slugs :
        /\ Len(dlog[s]) >= 1 => dlog[s][1].sent
        /\ \A k \in 1..(Len(dlog[s]) - 1) :
              IF dlog[s][k].ret # None
              THEN ~dlog[s][k + 1].sent /\ dlog[s][k + 1].ret = dlog[s][k].ret
              ELSE dlog[s][k + 1].sent

\* a slug asked for twice, the first request having succeeded
C2_Witness ==
    \E s \in Slugs : Len(dlog[s]) >= 2 /\ dlog[s][1].ret # None

C4_NoMarketDiscard == \A c \in noRootMarket : ~Appears(c)

C4_Witness ==
    /\ pc = "done"
    /\ returned # <<>>
    /\ noRootMarket # {}

(***************************************************************************)
(* C5.  A candidate for which get_item_details returned None, for itself   *)
(* or for one of its parts found in the id -> slug index, appears in no    *)
(* snapshot and not in the result.  The code breaks it: a part without     *)
(* detail is left out and the candidate is evaluated without it.           *)
(***************************************************************************)
C5_DetailFailureSkipsCandidate == \A c \in detailFailed : ~Appears(c)

(***************************************************************************)
(* C6.  Every snapshot and the returned collection are non-decreasing by   *)
(* cost.                                                                   *)
(***************************************************************************)
C6_SortedByCost ==
    \A sn \in Snapshots :
        \A i, j \in 1..Len(sn) : i < j => sn[i].cost <= sn[j].cost

\* a snapshot whose newest evaluation was inserted before an older one
C6_Witness ==
    \E k \in 2..Len(delivered) :
        /\ Len(delivered[k].items) >= 2
        /\ delivered[k].items[Len(delivered[k].items)]
              \in Evals(delivered[k - 1].items)

(***************************************************************************)
(* C7.  Every evaluation handed over has profit > 0, its set price above   *)
(* its cost; a candidate evaluated with set price <= cost appears in no    *)
(* snapshot and not in the result.                                         *)
(***************************************************************************)
C7_ProfitFilter ==
    /\ \A e \in Output : e.profit > 0 /\ e.set_price > e.cost
    /\ \A c \in unprofitable : ~Appears(c)

C7_Witness ==
    /\ pc = "done"
    /\ returned # <<>>
    /\ unprofitable # {}

(***************************************************************************)
(* C8.  Every evaluation handed over is consistent with its components:    *)
(* cost is the sum of unit_price * qty, profit is set_price - cost, trades *)
(* is the sum of the quantities plus 1.                                    *)
(***************************************************************************)
C8_Arithmetic ==
    \A e \in Output :
        /\ e.cost = LineTotal(e.components)
        /\ e.profit = e.set_price - e.cost
        /\ e.trades = QtyTotal(e.components) + 1
        /\ \A k \in 1..Len(e.components) :
              LET c == e.components[k]
              IN  c.qty >= 1 /\ c.price = <<c.qty, c.unit_price, c.unit_price * c.qty>>

\* the specification's example: root 300, components 50 x 2 and 40 x 1
C8_Witness ==
    \E e \in Output :
        /\ e.set_price = 300 /\ e.cost = 140 /\ e.profit = 160 /\ e.trades = 4
        /\ Len(e.components) = 2
        /\ e.components[1].unit_price = 50 /\ e.components[1].qty = 2
        /\ e.components[2].unit_price = 40 /\ e.components[2].qty = 1

(***************************************************************************)
(* C9 (PriceSpec).  get_lowest_sell_price is the least platinum among the  *)
(* sell orders of online or ingame users, and Inf exactly when there is    *)
(* none; buy orders and other sellers have no influence.                   *)
(***************************************************************************)
C9_LowestValidSell ==
    p_done =>
        LET valid == {k \in 1..Len(p_orders) :
                        /\ p_orders[k].type = "sell"
                        /\ p_orders[k].status \in {"online", "ingame"}}
        IN  /\ (valid = {}) <=> (p_result = Inf)
            /\ valid # {} =>
                  /\ \E k \in valid : p_orders[k].platinum = p_result
                  /\ \A k \in valid : p_orders[k].platinum >= p_result

\* the specification's example: 120, though 90 (offline) and 50 (buy) are lower
C9_Witness == p_done /\ p_orders = ExampleOrders /\ p_result = 120

(***************************************************************************)
(* C10.  When run_scan has returned, its result is the last snapshot       *)
(* delivered; it is empty exactly when the callback was never called.      *)
(***************************************************************************)
C10_ReturnIsLastSnapshot ==
    pc = "done" =>
        /\ (returned = <<>>) <=> (delivered = <<>>)
        /\ delivered # <<>> => returned = delivered[Len(delivered)].items

C10_Witness == pc = "done" /\ Len(delivered) >= 2

(***************************************************************************)
(* C11 (Spec).  Whatever the catalog (a failed listing leaves it empty)    *)
(* and whichever requests fail, run_scan calls calculate_set_profit for    *)
(* each candidate of target_sets once, in list order, and the run reaches  *)
(* its return: a candidate that is given up does not end the run.          *)
(* Termination is stated on finite runs: a run that has not returned can   *)
(* always take a step, and every step lowers StepsLeft, which is bounded.  *)
(***************************************************************************)
SlugsUpTo(n) == [k \in 1..n |-> target_sets[k].slug]

C11_InOrder ==
    /\ pc = "loop" => evaluated = SlugsUpTo(idx - 1)
    /\ pc \in {"parts", "components"} => evaluated = SlugsUpTo(idx)
    /\ pc = "done" => evaluated = SlugsUpTo(Len(target_sets))

\* the longest setParts of the catalog
RECURSIVE MaxParts(_)
MaxParts(items) ==
    IF items = <<>> THEN 0
    ELSE LET rest == MaxParts(Tail(items))
             here == Len(Head(items).setParts)
         IN  IF here > rest THEN here ELSE rest

LongestParts == MaxParts(Catalog)

\* an upper bound of the steps one candidate takes
PerCandidate == 2 * LongestParts + 5

\* an upper bound of the steps of a whole run
WholeRun == (Len(Catalog) + 1) * PerCandidate + 2

\* an upper bound of the steps the run still has to take
StepsLeft ==
    LET after == (Len(target_sets) - idx) * PerCandidate + 1
    IN  CASE pc = "done" -> 0
          [] pc = "start" -> WholeRun
          [] pc = "loop" -> after + PerCandidate
          [] pc = "parts" ->
                after + 2 + (Len(set_details.setParts) + 1 - pidx)
                      + LongestParts + 2
          [] pc = "components" -> after + 2 + (Len(components) + 1 - cidx)

C13_ListedByFirstRunOnly == \A k \in 1..Len(listLog) : listLog[k].scan = 1

(***************************************************************************)
(* C13, amended (Spec).  A run issues the get_all_items request exactly    *)
(* when it finds all_items_data empty: the first run does, and so does a   *)
(* later run when every earlier listing failed.  Once a listing was        *)
(* answered no later run issues the request, and the list and the          *)
(* id -> slug index it built stay as they are.                             *)
(***************************************************************************)
Listed == \E k \in 1..Len(listLog) : listLog[k].ok

\* the index initialize_items builds from the whole list
ItemsMap == BuildMap(EmptyMap, ItemsList)

C13_ListedUntilLoaded ==
    /\ \A k \in 1..Len(listLog) :
          /\ listLog[k].ok => k = Len(listLog)
          /\ \A j \in 1..(k - 1) : listLog[j].scan < listLog[k].scan
    /\ Listed => /\ all_items_data = ItemsList
                 /\ all_items_map = ItemsMap
    /\ ~Listed => /\ all_items_data = <<>>
                  /\ all_items_map = EmptyMap
                  /\ Len(listLog) = (IF pc = "start" THEN scans - 1 ELSE scans)

\* a second run went through the candidates of the list the first run loaded
C13_Witness ==
    /\ scans = 2
    /\ pc = "done"
    /\ listLog = <<[scan |-> 1, ok |-> TRUE]>>
    /\ Len(evaluated) >= 1

(***************************************************************************)
(* C16 (Spec).  The root of a candidate is resolved in two steps: if a     *)
(* part whose detail was obtained carries setRoot, such a part is the      *)
(* root; otherwise the candidate is the root if its own detail carries     *)
(* setRoot; otherwise the candidate is given up and no order book is       *)
(* requested for it.  No order book is requested before the root is        *)
(* resolved.                                                               *)
(***************************************************************************)
LastCandidate == evaluated[Len(evaluated)]

FlaggedParts ==
    {partsSeen[k] : k \in {j \in 1..Len(partsSeen) : Detail(partsSeen[j]).setRoot}}

C16_RootResolution ==
    Len(evaluated) > 0 =>
        /\ rootOf = "pending" => books = <<>>
        /\ rootOf # "pending" =>
              /\ FlaggedParts # {} => rootOf \in FlaggedParts
              /\ (FlaggedParts = {} /\ Detail(LastCandidate).setRoot) =>
                    rootOf = LastCandidate
              /\ (FlaggedParts = {} /\ ~Detail(LastCandidate).setRoot) =>
                    (rootOf = "none" /\ books = <<>>)

\* a candidate with one part, no root flag anywhere: given up without a book
C16_Witness ==
    /\ pc = "loop"
    /\ Len(evaluated) > 0
    /\ LastCandidate = "delta_prime_set"
    /\ partsSeen = <<"delta_prime_hilt">>
    /\ rootOf = "none"
    /\ books = <<>>

(***************************************************************************)
(* C17 (Spec).  Once the root of a candidate is resolved, every part whose *)
(* detail was obtained is either the root or one of the components that    *)
(* are priced, and not both: no part is left out.                          *)
(* The code breaks it: a second part carrying setRoot replaces the first   *)
(* as set_root_item, and the first is neither root nor component.          *)
(***************************************************************************)
ComponentSlugs == {components[k].slug : k \in 1..Len(components)}

C17_PartsPartitioned ==
    pc = "components" =>
        \A k \in 1..Len(partsSeen) :
            (partsSeen[k] = set_root_item.slug) # (partsSeen[k] \in ComponentSlugs)

(***************************************************************************)
(* C18 (Spec).  progress_callback is called once for each candidate        *)
(* evaluated with profit > 0 and for no other candidate.  Each call hands  *)
(* over the whole collection: the k-th list holds k evaluations and every  *)
(* evaluation of the list before it.  A list that was handed over is not   *)
(* changed by the insertions and sorts that follow.                        *)
(***************************************************************************)
C18_SnapshotsGrow ==
    /\ Len(delivered) = Cardinality(profitable)
    /\ \A k \in 1..Len(delivered) :
          /\ Len(delivered[k].items) = k
          /\ k > 1 => Evals(delivered[k - 1].items) \subseteq Evals(delivered[k].items)

C18_ProgressSnapshots ==
    /\ [] C18_SnapshotsGrow
    /\ [][pc # "done" =>
            \A k \in 1..Len(delivered) : delivered'[k].items = delivered[k].items]_vars

\* two calls of the callback in a run that also gave up or rejected a candidate
C18_Witness ==
    /\ pc = "done"
    /\ Len(delivered) = 2
    /\ Len(delivered[1].items) = 1
    /\ Len(evaluated) > Cardinality(profitable)

(***************************************************************************)
(* C14 (ClientSpec).  The lock is held across the wait and the send: a     *)
(* thread that sleeps out the interval or has a request in flight holds    *)
(* the lock, so there is at most one such thread; last_request_time is     *)
(* read (to decide on the sleep) and written only by the thread holding    *)
(* the lock.                                                               *)
(***************************************************************************)
InGet(t) == t_pc[t] \in {"sleep", "send", "wait"}

C14_LockedWaitAndSend ==
    /\ [] (\A t \in Threads : InGet(t) => lock = t)
    /\ [][\A t \in Threads :
            /\ (t_pc[t] = "lock" /\ t_pc'[t] # "lock") => (lock' = t /\ InGet(t)')
            /\ (t_pc[t] = "wait" /\ t_pc'[t] # "wait") => lock = t]_vars
    /\ [][last_request_time' # last_request_time =>
            (lock \in Threads /\ t_pc[lock] = "wait")]_vars

\* a thread sleeps out the interval with the lock while another waits for it
C14_Witness ==
    \E t, u \in Threads :
        /\ t # u
        /\ t_pc[t] = "sleep"
        /\ lock = t
        /\ t_pc[u] = "lock"

(***************************************************************************)
(* C15 (ClientSpec).  When a request ends, whether with a response of any  *)
(* status or with a transport failure, last_request_time is the time of    *)
(* its end when the lock is released.                                      *)
(* The code breaks it: when session.get raises, line 34 is skipped and the *)
(* lock is released with the old last_request_time.                        *)
(***************************************************************************)
C15_StampedOnEveryOutcome ==
    [][\A t \in Threads :
         (t_pc[t] = "wait" /\ t_pc'[t] = "ret") =>
            (lock' = 0 /\ last_request_time' = now)]_vars

(***************************************************************************)
(* C19 (ClientSpec).  The lookup, the request and the store of             *)
(* get_item_details do not interleave between threads: no two threads are  *)
(* past a cache miss for the same slug at once, and no request is in       *)
(* flight for a slug whose detail is in item_cache; so two concurrent      *)
(* calls for an uncached slug issue one request.                           *)
(* The code breaks it: the lookup (line 49) and the store (line 56) are    *)
(* outside the lock, both threads miss and each sends a request.           *)
(***************************************************************************)
PastMiss(t) == t_op[t] = "get_item_details" /\ t_pc[t] # "idle"

C19_CacheExclusive ==
    /\ \A t, u \in Threads :
          (t # u /\ PastMiss(t) /\ PastMiss(u)) => t_slug[t] # t_slug[u]
    /\ \A t \in Threads :
          (PastMiss(t) /\ t_pc[t] = "wait") => t_slug[t] \notin DOMAIN item_cache

(***************************************************************************)
(* C12 (AppSpec).  At most one thread executes calculator.run_scan at any  *)
(* time: /api/scan called while a scan is active answers 'running' and     *)
(* starts no thread.                                                       *)
(* The code breaks it: is_calculating is set by the thread (line 25), not  *)
(* by the handler that tested it (line 20); a second /api/scan before the  *)
(* first thread reaches line 25 starts a second thread.                    *)
(***************************************************************************)
C12_OneScanAtATime == Cardinality({t \in ScanThreads : s_pc[t] = "scan"}) <= 1

(***************************************************************************)
(* C20 (AppSpec).  When /api/results answers 'running', the results it     *)
(* returns are empty or were delivered by a scan that is running then,     *)
(* never evaluations of an earlier scan.                                   *)
(* The code breaks it: latest_results is not reset when a scan starts and  *)
(* holds the last scan's result until the new scan's first callback.       *)
(***************************************************************************)
C20_RunningShowsCurrentScan ==
    (polled # None /\ polled.status = "running") =>
        \A k \in 1..Len(polled.results) :
            polled.results[k].scan \in polled.scanning

====
